---- MODULE Spec2Model ----
(***************************************************************************)
(* A model of the CARLA integration harness:                               *)
(*   - the sensor bridge (carla_interface/sensors.py): BaseSensor and its  *)
(*     subclasses RGBCamera, LidarSensor, SemanticCamera, DepthCamera;     *)
(*   - the simulator facade (carla_interface/simulator.py): CarlaSimulator.*)
(* The bridge is modelled with one caller thread (spawn / destroy), the    *)
(* simulator's delivery thread (_sensor_callback), the background          *)
(* consumer threads (_process_data) and a polling reader (get_data).       *)
(***************************************************************************)
EXTENDS Integers, Sequences, FiniteSets, TLC

\* ---------------------------------------------------------------- bounds
\* Successful world.spawn_actor calls made by one bridge.
MaxSpawns == 2
\* destroy() calls made on one bridge.
MaxDestroys == 2
\* Raw frames the simulator delivers to one bridge.
MaxFrames == 2
\* get_data() calls made on one bridge.
MaxGets == 2

\* Actors (vehicles and sensors) spawned through one facade.
MaxWorldActors == 3
\* connect() calls that reach the server, and disconnect() calls.
MaxConnects == 2
MaxDisconnects == 2
\* Sensor frames delivered to the callbacks of one facade.
MaxData == 3

\* Nesting depth of the mappings of a configuration, the largest number
\* in one, and the length of the key strings get() is asked for.
MaxDepth == 2
MaxScalar == 2
MaxKeyLen == 3
\* load_config() calls made on one Settings object.
MaxLoads == 1

\* Image height and width, and the size of a raw buffer in bytes.
MaxHeight == 2
MaxWidth == 2
MaxBytes == 32

\* The largest coordinate or angle of a requested transform, in tenths.
MaxCoord == 1

\* The calls made on one renderer, per method.
MaxSetups == 2
MaxRenders == 3
MaxStills == 1
MaxCleanups == 2

\* queue.Queue() is Queue(maxsize=0): no upper limit on its size.
maxsize == 0

\* spawn_vehicle() lifts the spawn point by 0.2 units: 2 tenths.
Lift == 2

\* Python's None, for references (actor ids and thread ids start at 1)
\* and for frames (frames are numbered from 1 in arrival order).
None == 0

VARIABLES
    \* ---- sensor bridge (BaseSensor.__init__)
    sensor,     \* self.sensor: None or the id of a simulator actor
    queue,      \* self.queue: the decoded frames, oldest first
    thread,     \* self.thread: None or the id of a consumer thread
    running,    \* self.running
    \* ---- the world around the bridge
    actors,     \* simulator sensor actors created by the bridge, by id
    threads,    \* consumer threads started by the bridge, by id: position
    pc,         \* position of the caller thread inside spawn() / destroy()
    last,       \* the last call of the caller that returned normally
    err,        \* the exception that left the caller's last call, if any
    nDestroys,  \* destroy() calls begun
    nPut,       \* frames put on the queue so far
    putOutside, \* a frame was put on the queue while the bridge was not live
    latePut,    \* a frame was put on the queue after a get_data() call
    got,        \* the results of the get_data() calls, in call order
    lastGet,    \* the last get_data() call: what it found and returned
    snap,       \* the observable state when the last destroy() returned
    taken,      \* the frames the consumer threads took off the queue
    \* ---- simulator facade (CarlaSimulator.__init__)
    client,      \* self.client: None or a connection handle
    world,       \* self.world: None or the world of the connection
    vehicle,     \* self.vehicle: None or the id of a simulator actor
    sensors,     \* self.sensors: name -> actor id, in insertion order
    sensor_data, \* self.sensor_data: name -> latest decoded frame
    \* ---- the world around the facade
    worldActors, \* the actors spawned through the facade, by id
    dpc,         \* position of the caller inside disconnect()
    todo,        \* disconnect(): the sensors its loop has still to visit
    ferr,        \* the exception that left the last facade call, if any
    nConnects,   \* connect() calls made
    nDisconnects,\* disconnect() calls begun
    nData,       \* sensor frames delivered to the facade's callbacks
    fmsg,        \* the message of that exception, as words
    lastCall,    \* the last call that ended: "disconnect" or another "call"
    inRow,       \* the running or last disconnect() began right after one
    held,        \* what the caller holds from its last get_sensor_data()
    attempted,   \* the last spawn_vehicle() reached try_spawn_actor
    connected,   \* a connect() succeeded since construction / disconnect()
    orphans,     \* the sensor actors whose name was given to a later one
    \* ---- configuration (Settings.__init__)
    settings,    \* self.settings, None before construction
    nLoads,      \* load_config() calls made
    upd,         \* the last load_config(): what was merged and the result
    getr,        \* the last get(): what was asked and what it returned
    \* ---- the decode step of the bridge
    dec,         \* the last _sensor_callback: its raw frame, what it put
    \* ---- the evaluation driver
    env,           \* the environment of the process
    epc,           \* how far the script has run
    derr,          \* the error that ended it, if any
    evaluator,     \* a LeaderboardEvaluator was created
    simulatorUsed, \* evaluator.run was called
    \* ---- the spawn point of spawn_vehicle()
    sp,            \* the last call: its argument, the point it tried
    \* ---- the renderer (Renderer.__init__)
    rpc,           \* "none" before the renderer is made, then "made"
    save_video,    \* self.save_video
    video_writer,  \* self.video_writer: None or the writer it holds
    frame_count,   \* self.frame_count
    writers,       \* every cv2.VideoWriter made, in order of creation
    stills,        \* the files save_frame has written
    rlast,         \* the last call and what it found
    nSetups, nRenders, nStills, nCleanups   \* calls made, per method

bridgeVars == <<sensor, queue, thread, running, actors, threads, pc, last,
                err, nDestroys, nPut, putOutside, latePut, got, lastGet, snap,
                taken>>

\* The history variables: they record what happened and guide no action.
history == <<nPut, putOutside, latePut, got, lastGet, snap, taken>>

\* The facade's history variables: they guide no action.
facadeHist == <<fmsg, lastCall, inRow, held, attempted, connected, orphans>>

facadeVars == <<client, world, vehicle, sensors, sensor_data, worldActors,
                dpc, todo, ferr, nConnects, nDisconnects, nData, facadeHist>>

settingsVars == <<settings, nLoads, upd, getr>>

decodeVars == <<dec>>

driverVars == <<env, epc, derr, evaluator, simulatorUsed>>

pointVars == <<sp>>

rendererVars == <<rpc, save_video, video_writer, frame_count, writers,
                  stills, rlast, nSetups, nRenders, nStills, nCleanups>>

\* The variables of the parts around the bridge and the facade.
toolVars == <<settingsVars, decodeVars, driverVars, pointVars, rendererVars>>

notSettings == <<bridgeVars, facadeVars, decodeVars, driverVars, pointVars,
    rendererVars>>

notDecode == <<bridgeVars, facadeVars, settingsVars, driverVars, pointVars,
    rendererVars>>

notDriver == <<bridgeVars, facadeVars, settingsVars, decodeVars, pointVars,
    rendererVars>>

notPoint == <<bridgeVars, facadeVars, settingsVars, decodeVars, driverVars,
    rendererVars>>

notRenderer == <<bridgeVars, facadeVars, settingsVars, decodeVars, driverVars,
    pointVars>>

vars == <<bridgeVars, facadeVars, toolVars>>

\* ------------------------------------------------------------ life state
\* Where the bridge is in its lifecycle, as seen by the other threads:
\* inside a call of the caller, or after the last call that returned.
Life ==
    IF pc # "idle" THEN pc
    ELSE IF last = "spawn" THEN "live"
    ELSE IF last = "destroy" THEN "destroyed"
    ELSE "new"

ConsumerAlive(t) == threads[t] # "exited"

AliveConsumers == {t \in DOMAIN threads : ConsumerAlive(t)}

\* What a user of the bridge and the simulator can observe of it: the
\* running flag, the consumers still running, the actor reference and
\* the simulator's record of the actors the bridge created.
Obs ==
    [running |-> running, consumers |-> AliveConsumers, sensor |-> sensor,
     actors |-> actors]

NoGet ==
    [empty |-> TRUE, newest |-> None, ret |-> None, raised |-> "none",
     life |-> "none"]

\* ------------------------------------------------------------------ Init
\* The state after construction: BaseSensor.__init__ for the bridge and
\* CarlaSimulator.__init__ for the facade.
Init ==
    /\ sensor = None
    /\ queue = <<>>
    /\ thread = None
    /\ running = FALSE
    /\ actors = <<>>
    /\ threads = <<>>
    /\ pc = "idle"
    /\ last = "none"
    /\ err = "none"
    /\ nDestroys = 0
    /\ nPut = 0
    /\ putOutside = FALSE
    /\ latePut = FALSE
    /\ got = <<>>
    /\ lastGet = NoGet
    /\ snap = Obs
    /\ taken = {}
    /\ client = None
    /\ world = None
    /\ vehicle = None
    /\ sensors = <<>>
    /\ sensor_data = <<>>
    /\ worldActors = <<>>
    /\ dpc = "idle"
    /\ todo = <<>>
    /\ ferr = "none"
    /\ nConnects = 0
    /\ nDisconnects = 0
    /\ nData = 0
    /\ fmsg = <<>>
    /\ lastCall = "none"
    /\ inRow = FALSE
    /\ held = [has |-> FALSE, live |-> FALSE, atCall |-> <<>>, old |-> <<>>]
    /\ attempted = FALSE
    /\ connected = FALSE
    /\ orphans = {}
    /\ settings = [kind |-> "none"]
    /\ nLoads = 0
    /\ upd = [d |-> settings, u |-> settings, out |-> settings,
              raised |-> FALSE, called |-> FALSE]
    /\ getr = [key |-> <<>>, default |-> settings, ret |-> settings,
               called |-> FALSE]
    /\ dec = [called |-> FALSE]
    /\ env = <<>>
    /\ epc = "none"
    /\ derr = "none"
    /\ evaluator = FALSE
    /\ simulatorUsed = FALSE
    /\ sp = [called |-> FALSE]
    /\ rpc = "none"
    /\ save_video = FALSE
    /\ video_writer = None
    /\ frame_count = 0
    /\ writers = <<>>
    /\ stills = {}
    /\ rlast = [op |-> "none", count |-> 0, written |-> 0, had |-> None,
                stills |-> {}]
    /\ nSetups = 0
    /\ nRenders = 0
    /\ nStills = 0
    /\ nCleanups = 0

\* ------------------------------------------------------------- spawn()
\* RGBCamera.spawn; the spawn and _process_data of LidarSensor,
\* SemanticCamera and DepthCamera are the same statements (only the
\* blueprint's name and attributes differ), and destroy and get_data are
\* inherited by all four from BaseSensor.
\* world.spawn_actor succeeds: the actor exists and self.sensor names it.
SpawnActor ==
    /\ pc = "idle"
    /\ Len(actors) < MaxSpawns
    /\ actors' = Append(actors, [alive |-> TRUE, listening |-> FALSE,
                                 destroyCalls |-> 0])
    /\ sensor' = Len(actors) + 1
    /\ pc' = "spawn_listen"
    /\ err' = "none"
    /\ UNCHANGED <<queue, thread, running, threads, last, nDestroys,
                   history>>

\* A spawn() that marks the bridge running before it creates the actor.
SpawnActorFailsAfterRun ==
    /\ pc = "idle"
    /\ err' = "construction_error"
    /\ running' = TRUE
    /\ UNCHANGED <<sensor, queue, thread, actors, threads, pc, last,
                   nDestroys, history>>

\* world.spawn_actor (or the blueprint lookup before it) raises: the
\* exception leaves spawn() before any field of the bridge is assigned.
SpawnActorFails ==
    /\ pc = "idle"
    /\ err' = "construction_error"
    /\ UNCHANGED <<sensor, queue, thread, running, actors, threads, pc,
                   last, nDestroys, history>>

\* self.sensor.listen(self._sensor_callback)
SpawnListen ==
    /\ pc = "spawn_listen"
    /\ actors' = [actors EXCEPT ![sensor].listening = TRUE]
    /\ pc' = "spawn_run"
    /\ UNCHANGED <<sensor, queue, thread, running, threads, last, err,
                   nDestroys, history>>

\* self.running = True
SpawnRun ==
    /\ pc = "spawn_run"
    /\ running' = TRUE
    /\ pc' = "spawn_thread"
    /\ UNCHANGED <<sensor, queue, thread, actors, threads, last, err,
                   nDestroys, history>>

\* self.thread = threading.Thread(target=self._process_data); start()
SpawnThread ==
    /\ pc = "spawn_thread"
    /\ threads' = Append(threads, "loop")
    /\ thread' = Len(threads) + 1
    /\ pc' = "idle"
    /\ last' = "spawn"
    /\ UNCHANGED <<sensor, queue, running, actors, err, nDestroys,
                   history>>

\* ------------------------------------------------------------ destroy()
\* carla's Actor.destroy() as BaseSensor.destroy reaches it: the request
\* is sent whatever the actor's state; the actor stops listening and dies.
ActorDestroy(a) ==
    [alive |-> FALSE, listening |-> FALSE, destroyCalls |-> a.destroyCalls + 1]

\* self.running = False
DestroyBegin ==
    /\ pc = "idle"
    /\ nDestroys < MaxDestroys
    /\ running' = FALSE
    /\ nDestroys' = nDestroys + 1
    /\ pc' = "destroy_join"
    /\ err' = "none"
    /\ UNCHANGED <<sensor, queue, thread, actors, threads, last,
                   history>>

\* if self.thread is not None: self.thread.join()
\* join() returns once the thread self.thread names has exited.
DestroyJoin ==
    /\ pc = "destroy_join"
    /\ IF thread = None THEN TRUE ELSE ~ConsumerAlive(thread)
    /\ pc' = "destroy_actor"
    /\ UNCHANGED <<sensor, queue, thread, running, actors, threads,
                   last, err, nDestroys, history>>

\* if self.sensor is not None: self.sensor.destroy()
\* self.sensor is not reset: it keeps naming the actor after the call.
DestroyActor ==
    /\ pc = "destroy_actor"
    /\ actors' = IF sensor # None
                 THEN [actors EXCEPT ![sensor] = ActorDestroy(actors[sensor])]
                 ELSE actors
    /\ pc' = "idle"
    /\ last' = "destroy"
    /\ UNCHANGED <<sensor, queue, thread, running, threads, err, nDestroys,
                   nPut, putOutside, latePut, got, lastGet, taken>>
    /\ snap' = Obs'

\* ---------------------------------------------------- _sensor_callback
\* The simulator's delivery thread calls the callback registered with
\* listen() of any actor that is listening; the callback decodes the raw
\* frame and puts it on the queue of the bridge it is bound to. Frames
\* are numbered in arrival order.
\* Queue.put(item) waits while a queue with a limit holds that many.
QueueNotFull(q) == maxsize <= 0 \/ Len(q) < maxsize

SensorCallback(a) ==
    /\ a \in DOMAIN actors
    /\ actors[a].listening
    /\ nPut < MaxFrames
    /\ QueueNotFull(queue)
    /\ queue' = Append(queue, nPut + 1)
    /\ nPut' = nPut + 1
    /\ putOutside' = (putOutside \/ Life # "live")
    /\ latePut' = (latePut \/ got # <<>>)
    /\ UNCHANGED <<sensor, thread, running, actors, threads, pc, last, err,
                   nDestroys, got, lastGet, snap, taken>>

\* -------------------------------------------------------- _process_data
\* while self.running:
ConsumerCheck(t) ==
    /\ t \in DOMAIN threads
    /\ threads[t] = "loop"
    /\ threads' = [threads EXCEPT ![t] = IF running THEN "wait" ELSE "exited"]
    /\ UNCHANGED <<sensor, queue, thread, running, actors, pc, last,
                   err, nDestroys, history>>

\* A consumer that reads the oldest frame and leaves it on the queue.
ConsumerPeek(t) ==
    /\ t \in DOMAIN threads
    /\ threads[t] = "wait"
    /\ queue # <<>>
    /\ taken' = taken \cup {Head(queue)}
    /\ threads' = [threads EXCEPT ![t] = "loop"]
    /\ UNCHANGED <<sensor, queue, thread, running, actors, pc, last, err,
                   nDestroys, nPut, putOutside, latePut, got, lastGet, snap>>

\* self.queue.get(timeout=0.1) returns a frame, which is dropped.
ConsumerGet(t) ==
    /\ t \in DOMAIN threads
    /\ threads[t] = "wait"
    /\ queue # <<>>
    /\ queue' = Tail(queue)
    /\ taken' = taken \cup {Head(queue)}
    /\ threads' = [threads EXCEPT ![t] = "loop"]
    /\ UNCHANGED <<sensor, thread, running, actors, pc, last, err,
                   nDestroys, nPut, putOutside, latePut, got, lastGet, snap>>

\* self.queue.get(timeout=0.1) raises Empty after the timeout: continue.
ConsumerTimeout(t) ==
    /\ t \in DOMAIN threads
    /\ threads[t] = "wait"
    /\ queue = <<>>
    /\ threads' = [threads EXCEPT ![t] = "loop"]
    /\ UNCHANGED <<sensor, queue, thread, running, actors, pc, last,
                   err, nDestroys, history>>

\* ------------------------------------------------------------ get_data()
\* queue.get_nowait(): the oldest item, or the exception queue.Empty.
QueueGetNowait(q) ==
    IF q = <<>>
    THEN [raised |-> "Empty", item |-> None, rest |-> q]
    ELSE [raised |-> "none", item |-> Head(q), rest |-> Tail(q)]

\* A get_data() without the except clause: queue.Empty leaves the call.
GetDataResultNoExcept(q) ==
    LET g == QueueGetNowait(q)
    IN  [raised |-> g.raised, ret |-> g.item, rest |-> g.rest]

\* try: return self.queue.get_nowait()  except: return None
GetDataResult(q) ==
    LET g == QueueGetNowait(q)
    IN  IF g.raised # "none"
        THEN [raised |-> "none", ret |-> None, rest |-> g.rest]
        ELSE [raised |-> "none", ret |-> g.item, rest |-> g.rest]

\* get_data(), called by the thread that owns the bridge between its
\* calls of spawn() and destroy().
GetData ==
    /\ pc = "idle"
    /\ Len(got) < MaxGets
    /\ LET r == GetDataResult(queue)
       IN  /\ queue' = r.rest
           /\ got' = Append(got, r.ret)
           /\ lastGet' = [empty |-> queue = <<>>,
                          newest |-> IF queue = <<>> THEN None
                                     ELSE queue[Len(queue)],
                          ret |-> r.ret, raised |-> r.raised, life |-> Life]
    /\ UNCHANGED <<sensor, thread, running, actors, threads, pc, last, err,
                   nDestroys, nPut, putOutside, latePut, snap, taken>>

\* ------------------------------------------------------------------ Next
BridgeNext ==
    \/ SpawnActor
    \/ SpawnActorFails
    \/ SpawnListen
    \/ SpawnRun
    \/ SpawnThread
    \/ DestroyBegin
    \/ DestroyJoin
    \/ DestroyActor
    \/ GetData
    \/ \E a \in DOMAIN actors : SensorCallback(a)
    \/ \E t \in DOMAIN threads : ConsumerCheck(t)
    \/ \E t \in DOMAIN threads : ConsumerGet(t)
    \/ \E t \in DOMAIN threads : ConsumerTimeout(t)

SpecBridge ==
    Init /\ [][BridgeNext /\ UNCHANGED <<facadeVars, toolVars>>]_vars

\* The scheduler is fair to the threads: a consumer that can take a step
\* of its loop takes it (its wait ends with a frame or with the timeout),
\* and the caller inside destroy() goes on once join() can return.
BridgeFairness ==
    /\ WF_vars(DestroyJoin /\ UNCHANGED <<facadeVars, toolVars>>)
    /\ WF_vars(DestroyActor /\ UNCHANGED <<facadeVars, toolVars>>)
    /\ \A t \in 1..MaxSpawns :
          /\ WF_vars(ConsumerCheck(t) /\ UNCHANGED <<facadeVars, toolVars>>)
          /\ WF_vars((ConsumerGet(t) \/ ConsumerTimeout(t))
                     /\ UNCHANGED <<facadeVars, toolVars>>)

SpecBridgeFair == SpecBridge /\ BridgeFairness

\* ======================================================================
\* Claims about the sensor bridge
\* ======================================================================

SpawnPcs == {"spawn_listen", "spawn_run", "spawn_thread"}

AliveActors == {a \in DOMAIN actors : actors[a].alive}

\* C1: on a spawned bridge, a destroy() that directly follows a destroy()
\* is a no-op: when it returns, the observable state is the one the first
\* call left (running flag clear, no running consumer, no reference to a
\* live actor).
C1_SecondDestroyIsNoOp ==
    [][(pc = "destroy_actor" /\ pc' = "idle" /\ last = "destroy"
        /\ Len(actors) > 0)
       => /\ Obs' = snap
          /\ ~running'
          /\ AliveConsumers' = {}
          /\ (sensor' = None \/ ~actors'[sensor'].alive)]_vars

\* C2: over any sequence of spawn() and destroy() calls, the destroy
\* operation of each simulator sensor actor is invoked at most once.
C2_ActorDestroyedAtMostOnce ==
    \A a \in DOMAIN actors : actors[a].destroyCalls <= 1

\* C3: no decoded frame is put on the queue before spawn() has completed
\* or after destroy() has begun.
C3_NoPutOutsideLife == ~putOutside

\* C4: after spawn(), N frames injected through the callback and then N
\* get_data() calls: the calls return exactly those frames in arrival
\* order, whatever the consumer thread did in between.
C4_GetDataReturnsAllInOrder ==
    (/\ pc = "idle" /\ last = "spawn"
     /\ Len(actors) = 1 /\ nDestroys = 0
     /\ nPut > 0 /\ ~putOutside /\ ~latePut
     /\ Len(got) = nPut)
    => got = [i \in 1..nPut |-> i]

\* C5: get_data() never blocks and never raises, in every state of the
\* bridge, and it returns None whenever the queue is empty at the call.
C5_GetDataNeverBlocksNorRaises ==
    /\ (pc = "idle" /\ Len(got) < MaxGets) => ENABLED GetData
    /\ lastGet.raised = "none"
    /\ lastGet.empty => lastGet.ret = None

C5_Witness ==
    /\ lastGet.life = "new"
    /\ lastGet.empty
    /\ lastGet.ret = None
    /\ lastGet.raised = "none"

\* C6: whenever the queue holds at least one frame, get_data() returns
\* the most recently queued frame.
C6_GetDataReturnsNewest ==
    (lastGet.life # "none" /\ ~lastGet.empty) => lastGet.ret = lastGet.newest

\* C7: spawn() on a bridge that is already spawned is rejected at entry:
\* it creates no second sensor actor and no second consumer thread.
C7_SecondSpawnRejected ==
    /\ pc \in SpawnPcs => last # "spawn"
    /\ Cardinality(AliveActors) <= 1
    /\ Cardinality(AliveConsumers) <= 1

\* C8: every destroy() call eventually returns, and when it returns no
\* consumer thread of the bridge is still running.
C8_DestroyReturnsWithNoConsumer ==
    /\ (pc = "destroy_join") ~> (pc = "idle")
    /\ [][(pc = "destroy_actor" /\ pc' = "idle") => AliveConsumers' = {}]_vars

\* The part of C8 that holds of the code: destroy() always returns.
DestroyEventuallyReturns == (pc = "destroy_join") ~> (pc = "idle")

Unstarted ==
    /\ sensor = None
    /\ ~running
    /\ thread = None
    /\ \A a \in DOMAIN actors : ~actors[a].listening

\* C9: a spawn() whose actor cannot be created raises the construction
\* error and changes nothing: on a bridge that was never started it
\* leaves no callback registered, the running flag false, no consumer
\* thread and no actor reference.
C9_FailedSpawnLeavesUnstarted ==
    /\ [][(err' = "construction_error" /\ err # "construction_error")
          => /\ pc' = "idle"
             /\ UNCHANGED <<sensor, running, thread, threads, actors, queue>>
       ]_vars
    /\ []((err = "construction_error" /\ last = "none") => Unstarted)

C9_Witness ==
    /\ err = "construction_error"
    /\ last = "none"
    /\ Unstarted
    /\ actors = <<>>
    /\ threads = <<>>

\* The frames get_data() has returned, the frames the consumers took and
\* the frames still on the queue.
Returned == {got[i] : i \in DOMAIN got} \ {None}

Queued == {queue[i] : i \in DOMAIN queue}

\* Any number of frames below the number a run delivers.
QueueCapacity == MaxFrames - 1

\* C25: the queue never holds more than a fixed number of frames,
\* however slowly the consumer and get_data() take them off.
C25_QueueBounded == Len(queue) <= QueueCapacity

\* C27: every frame put on the queue is in exactly one place: still on
\* the queue (once), taken by a consumer thread, or returned by one
\* get_data() call.
C27_FrameRemovedOnce ==
    /\ \A i, j \in DOMAIN got : (i # j /\ got[i] # None) => got[i] # got[j]
    /\ \A i, j \in DOMAIN queue : i # j => queue[i] # queue[j]
    /\ Returned \cap taken = {}
    /\ Queued \cap (Returned \cup taken) = {}
    /\ Returned \cup taken \cup Queued = 1..nPut

C27_Witness ==
    /\ nPut = MaxFrames
    /\ taken # {}
    /\ Returned # {}
    /\ queue = <<>>

\* ======================================================================
\* The simulator facade: CarlaSimulator
\* ======================================================================

\* The names the caller gives its sensors.
SensorNames == {"front", "top"}

\* The actor ids self.sensors holds, in the order of the dict's values().
SensorActors == [i \in 1..Len(sensors) |-> sensors[i].actor]

HasSensor(name) == \E i \in 1..Len(sensors) : sensors[i].name = name

\* The actor self.sensors holds under a name it has.
SensorOf(name) ==
    sensors[CHOOSE i \in 1..Len(sensors) : sensors[i].name = name].actor

\* An add that keeps the sensor already stored under the name.
SensorsSetDefault(name, actor) ==
    IF HasSensor(name)
    THEN sensors
    ELSE Append(sensors, [name |-> name, actor |-> actor])

\* self.sensors[name] = actor: a dict keeps the position of a key it has.
SensorsSet(name, actor) ==
    IF HasSensor(name)
    THEN [i \in 1..Len(sensors) |->
            IF sensors[i].name = name
            THEN [name |-> name, actor |-> actor]
            ELSE sensors[i]]
    ELSE Append(sensors, [name |-> name, actor |-> actor])

\* A store that replaces the whole mapping by the one new entry.
DataSetOnly(name, array) == [n \in {name} |-> array]

\* self.sensor_data[name] = array
DataSet(name, array) ==
    [n \in (DOMAIN sensor_data) \cup {name} |->
        IF n = name THEN array ELSE sensor_data[n]]

\* _on_camera_data: the raw buffer as height x width x 4 bytes, the
\* fourth channel dropped. _on_lidar_data: the raw buffer as 32-bit
\* floats, four to a row. raw is the arrival number of the raw frame.
DecodeCamera(raw) == [frame |-> raw, shape |-> "HxWx3"]

DecodeLidar(raw) == [frame |-> raw, shape |-> "Nx4"]

Decode(type, raw) ==
    IF type = "camera" THEN DecodeCamera(raw) ELSE DecodeLidar(raw)

\* carla's Actor.destroy(): the actor stops listening and dies.
WorldActorDestroy(a) ==
    [a EXCEPT !.alive = FALSE, !.listening = FALSE,
              !.destroyCalls = a.destroyCalls + 1]

\* ------------------------------------------------ exceptions and messages
\* Messages are sequences of words; CarlaError stands for the message of
\* an exception raised inside the simulator's client library.
NoMsg == <<>>

CarlaError == <<"carla">>

NotConnectedMsg ==
    <<"Cannot", "spawn", "vehicle:", "World", "is", "not", "connected">>

NotFoundMsg == <<"Vehicle", "model", "not", "found">>

BadTransformMsg ==
    <<"Transform", "must", "be", "either", "a", "dictionary", "or",
      "carla.Transform", "object">>

CollisionMsg ==
    <<"Failed", "to", "spawn", "vehicle:", "Spawn", "failed", "because",
      "of", "collision", "at", "spawn", "position">>

NoVehicleMsg == <<"No", "vehicle", "spawned">>

\* A re-raise that drops the message of the exception it caught.
WrapSpawnErrorNoCause(msg) == <<"Failed", "to", "spawn", "vehicle:">>

\* raise RuntimeError(f"Failed to spawn vehicle: {str(e)}")
WrapSpawnError(msg) == <<"Failed", "to", "spawn", "vehicle:">> \o msg

Contains(msg, word) == \E i \in 1..Len(msg) : msg[i] = word

\* How a call of the caller other than disconnect() ends: normally
\* (kind "none") or with an exception of the given kind and message.
Ends(kind, msg) ==
    /\ lastCall' = "call"
    /\ inRow' = FALSE
    /\ ferr' = kind
    /\ fmsg' = msg

\* The caller's reference to the mapping get_sensor_data() returned:
\* live while it is the dict self.sensor_data names, with the content the
\* dict had at the call; old is the content of a dict the facade dropped.
NoHeld == [has |-> FALSE, live |-> FALSE, atCall |-> <<>>, old |-> <<>>]

HeldNow == IF held.live THEN sensor_data ELSE held.old

\* ------------------------------------------------------------- connect()
\* The client is created and get_world() answers.
Connect ==
    /\ dpc = "idle"
    /\ nConnects < MaxConnects
    /\ nConnects' = nConnects + 1
    /\ client' = nConnects + 1
    /\ world' = nConnects + 1
    /\ connected' = TRUE
    /\ Ends("none", NoMsg)
    /\ UNCHANGED <<vehicle, sensors, sensor_data, worldActors, dpc, todo,
                   nDisconnects, nData, held, attempted, orphans, bridgeVars, toolVars>>

\* get_world() raises (server unreachable within the timeout): the
\* exception is re-raised after self.client was assigned.
ConnectFails ==
    /\ dpc = "idle"
    /\ nConnects < MaxConnects
    /\ nConnects' = nConnects + 1
    /\ client' = nConnects + 1
    /\ Ends("connect_error", CarlaError)
    /\ UNCHANGED <<world, vehicle, sensors, sensor_data, worldActors, dpc,
                   todo, nDisconnects, nData, held, attempted, connected,
                   orphans, bridgeVars, toolVars>>

\* ------------------------------------------------------- spawn_vehicle()
\* A spawn_vehicle() without the test of self.world.
SpawnVehicleNoWorldTest ==
    /\ dpc = "idle"
    /\ Len(worldActors) < MaxWorldActors
    /\ worldActors' = Append(worldActors,
                             [type |-> "vehicle", name |-> "", alive |-> TRUE,
                              listening |-> FALSE, destroyCalls |-> 0,
                              parent |-> None])
    /\ vehicle' = Len(worldActors) + 1
    /\ attempted' = TRUE
    /\ Ends("none", NoMsg)
    /\ UNCHANGED <<client, world, sensors, sensor_data, dpc, todo, nConnects,
                   nDisconnects, nData, held, connected, orphans, bridgeVars, toolVars>>

\* The blueprint is found, the transform converts and try_spawn_actor
\* returns an actor.
SpawnVehicle ==
    /\ dpc = "idle"
    /\ world # None
    /\ Len(worldActors) < MaxWorldActors
    /\ worldActors' = Append(worldActors,
                             [type |-> "vehicle", name |-> "", alive |-> TRUE,
                              listening |-> FALSE, destroyCalls |-> 0,
                              parent |-> None])
    /\ vehicle' = Len(worldActors) + 1
    /\ attempted' = TRUE
    /\ Ends("none", NoMsg)
    /\ UNCHANGED <<client, world, sensors, sensor_data, dpc, todo, nConnects,
                   nDisconnects, nData, held, connected, orphans, bridgeVars, toolVars>>

\* The exception of a spawn_vehicle() that fails: no world; no blueprint
\* of that model; a transform of neither accepted form; try_spawn_actor
\* returned None (the position is occupied) or raised, both re-raised by
\* the except clause around the attempt.
SpawnFailure(why) ==
    CASE why = "not_connected" -> [msg |-> NotConnectedMsg, tried |-> FALSE]
      [] why = "not_found"     -> [msg |-> NotFoundMsg, tried |-> FALSE]
      [] why = "bad_transform" -> [msg |-> BadTransformMsg, tried |-> FALSE]
      [] why = "collision"     -> [msg |-> WrapSpawnError(CollisionMsg),
                                   tried |-> TRUE]
      [] why = "spawn_raised"  -> [msg |-> WrapSpawnError(CarlaError),
                                   tried |-> TRUE]

SpawnFailures ==
    {"not_connected", "not_found", "bad_transform", "collision",
     "spawn_raised"}

\* A spawn_vehicle() that finds out what is wrong only after it spawned.
SpawnVehicleFailsLate(why) ==
    /\ dpc = "idle"
    /\ why \in (IF world = None THEN {"not_connected"}
                ELSE SpawnFailures \ {"not_connected"})
    /\ attempted' = TRUE
    /\ worldActors' = IF Len(worldActors) < MaxWorldActors
                      THEN Append(worldActors,
                                  [type |-> "vehicle", name |-> "vehicle",
                                   alive |-> TRUE, listening |-> FALSE,
                                   destroyCalls |-> 0, parent |-> None])
                      ELSE worldActors
    /\ Ends(why, SpawnFailure(why).msg)
    /\ UNCHANGED <<client, world, vehicle, sensors, sensor_data, dpc, todo,
                   nConnects, nDisconnects, nData, held, connected, orphans,
                   bridgeVars, toolVars>>

\* The call raises and changes nothing in the facade or the world.
SpawnVehicleFails(why) ==
    /\ dpc = "idle"
    /\ why \in (IF world = None THEN {"not_connected"}
                ELSE SpawnFailures \ {"not_connected"})
    /\ attempted' = SpawnFailure(why).tried
    /\ Ends(why, SpawnFailure(why).msg)
    /\ UNCHANGED <<client, world, vehicle, sensors, sensor_data, worldActors,
                   dpc, todo, nConnects, nDisconnects, nData, held, connected,
                   orphans, bridgeVars, toolVars>>

\* ------------------------------------------ add_rgb_camera() / add_lidar()
\* An add without the test of self.vehicle.
AddSensorNoVehicleTest(type, name) ==
    /\ dpc = "idle"
    /\ Len(worldActors) < MaxWorldActors
    /\ worldActors' = Append(worldActors,
                             [type |-> type, name |-> name, alive |-> TRUE,
                              listening |-> TRUE, destroyCalls |-> 0,
                              parent |-> vehicle])
    /\ sensors' = SensorsSet(name, Len(worldActors) + 1)
    /\ orphans' = IF HasSensor(name) THEN orphans \cup {SensorOf(name)}
                  ELSE orphans
    /\ Ends("none", NoMsg)
    /\ UNCHANGED <<client, world, vehicle, sensor_data, dpc, todo, nConnects,
                   nDisconnects, nData, held, attempted, connected,
                   bridgeVars, toolVars>>

\* The sensor is spawned attached to the vehicle, stored under its name
\* (the actor the name had before is no longer referenced) and listens.
AddSensor(type, name) ==
    /\ dpc = "idle"
    /\ vehicle # None
    /\ Len(worldActors) < MaxWorldActors
    /\ worldActors' = Append(worldActors,
                             [type |-> type, name |-> name, alive |-> TRUE,
                              listening |-> TRUE, destroyCalls |-> 0,
                              parent |-> vehicle])
    /\ sensors' = SensorsSet(name, Len(worldActors) + 1)
    /\ orphans' = IF HasSensor(name) THEN orphans \cup {SensorOf(name)}
                  ELSE orphans
    /\ Ends("none", NoMsg)
    /\ UNCHANGED <<client, world, vehicle, sensor_data, dpc, todo, nConnects,
                   nDisconnects, nData, held, attempted, connected,
                   bridgeVars, toolVars>>

AddRgbCamera(name) == AddSensor("camera", name)

AddLidar(name) == AddSensor("lidar", name)

\* if not self.vehicle: raise RuntimeError("No vehicle spawned")
AddSensorFails ==
    /\ dpc = "idle"
    /\ vehicle = None
    /\ Ends("no_vehicle", NoVehicleMsg)
    /\ UNCHANGED <<client, world, vehicle, sensors, sensor_data, worldActors,
                   dpc, todo, nConnects, nDisconnects, nData, held, attempted,
                   connected, orphans, bridgeVars, toolVars>>

\* world.spawn_actor raises: the exception leaves the add before
\* self.sensors is assigned.
AddSensorSpawnFails ==
    /\ dpc = "idle"
    /\ vehicle # None
    /\ Ends("sensor_spawn_error", CarlaError)
    /\ UNCHANGED <<client, world, vehicle, sensors, sensor_data, worldActors,
                   dpc, todo, nConnects, nDisconnects, nData, held, attempted,
                   connected, orphans, bridgeVars, toolVars>>

\* ------------------------------------- _on_camera_data / _on_lidar_data
\* The simulator's delivery thread calls the lambda registered with the
\* actor's listen(): the frame is decoded and stored under the name the
\* lambda was created with. Frames are numbered in arrival order.
OnSensorData(a, type) ==
    /\ a \in DOMAIN worldActors
    /\ worldActors[a].type = type
    /\ worldActors[a].listening
    /\ nData < MaxData
    /\ nData' = nData + 1
    /\ sensor_data' = DataSet(worldActors[a].name, Decode(type, nData + 1))
    /\ UNCHANGED <<client, world, vehicle, sensors, worldActors, dpc, todo,
                   ferr, nConnects, nDisconnects, facadeHist, bridgeVars, toolVars>>

OnCameraData(a) == OnSensorData(a, "camera")

OnLidarData(a) == OnSensorData(a, "lidar")

\* ------------------------------------------------------ get_sensor_data()
\* return self.sensor_data: the caller gets the dict itself.
GetSensorData ==
    /\ dpc = "idle"
    /\ held' = [has |-> TRUE, live |-> TRUE, atCall |-> sensor_data,
                old |-> <<>>]
    /\ Ends("none", NoMsg)
    /\ UNCHANGED <<client, world, vehicle, sensors, sensor_data, worldActors,
                   dpc, todo, nConnects, nDisconnects, nData, attempted,
                   connected, orphans, bridgeVars, toolVars>>

\* ---------------------------------------------------------- disconnect()
\* for sensor in self.sensors.values(): the loop starts.
DisconnectBegin ==
    /\ dpc = "idle"
    /\ nDisconnects < MaxDisconnects
    /\ nDisconnects' = nDisconnects + 1
    /\ dpc' = "sensors"
    /\ todo' = SensorActors
    /\ ferr' = "none"
    /\ fmsg' = NoMsg
    /\ inRow' = (lastCall = "disconnect")
    /\ UNCHANGED <<client, world, vehicle, sensors, sensor_data, worldActors,
                   nConnects, nData, lastCall, held, attempted, connected,
                   orphans, bridgeVars, toolVars>>

\* sensor.destroy(), for the next sensor of the loop.
DisconnectSensor ==
    /\ dpc = "sensors"
    /\ todo # <<>>
    /\ worldActors' = [worldActors EXCEPT
                         ![Head(todo)] = WorldActorDestroy(worldActors[Head(todo)])]
    /\ todo' = Tail(todo)
    /\ UNCHANGED <<client, world, vehicle, sensors, sensor_data, dpc, ferr,
                   nConnects, nDisconnects, nData, facadeHist, bridgeVars, toolVars>>

\* A disconnect() that destroys the vehicle before the loop is over.
DisconnectVehicleFirst ==
    /\ dpc = "sensors"
    /\ worldActors' = IF vehicle # None
                      THEN [worldActors EXCEPT
                              ![vehicle] = WorldActorDestroy(worldActors[vehicle])]
                      ELSE worldActors
    /\ dpc' = "reset"
    /\ UNCHANGED <<client, world, vehicle, sensors, sensor_data, todo, ferr,
                   nConnects, nDisconnects, nData, facadeHist, bridgeVars, toolVars>>

\* The loop is over. if self.vehicle: self.vehicle.destroy()
DisconnectVehicle ==
    /\ dpc = "sensors"
    /\ todo = <<>>
    /\ worldActors' = IF vehicle # None
                      THEN [worldActors EXCEPT
                              ![vehicle] = WorldActorDestroy(worldActors[vehicle])]
                      ELSE worldActors
    /\ dpc' = "reset"
    /\ UNCHANGED <<client, world, vehicle, sensors, sensor_data, todo, ferr,
                   nConnects, nDisconnects, nData, facadeHist, bridgeVars, toolVars>>

\* The dict a caller holds stays as it is when the facade drops it.
HeldAfterReset ==
    IF held.has /\ held.live
    THEN [held EXCEPT !.live = FALSE, !.old = sensor_data]
    ELSE held

\* A reset that leaves self.sensor_data as it is.
DisconnectResetKeepsData ==
    /\ dpc = "reset"
    /\ client' = None
    /\ world' = None
    /\ vehicle' = None
    /\ sensors' = <<>>
    /\ dpc' = "idle"
    /\ lastCall' = "disconnect"
    /\ connected' = FALSE
    /\ UNCHANGED <<sensor_data, worldActors, todo, ferr, nConnects,
                   nDisconnects, nData, inRow, held, fmsg, attempted, orphans,
                   bridgeVars, toolVars>>

\* A reset that leaves self.vehicle as it is.
DisconnectResetKeepsVehicle ==
    /\ dpc = "reset"
    /\ client' = None
    /\ world' = None
    /\ sensors' = <<>>
    /\ sensor_data' = <<>>
    /\ dpc' = "idle"
    /\ lastCall' = "disconnect"
    /\ connected' = FALSE
    /\ held' = HeldAfterReset
    /\ UNCHANGED <<vehicle, worldActors, todo, ferr, nConnects, nDisconnects,
                   nData, inRow, fmsg, attempted, orphans, bridgeVars, toolVars>>

\* self.client = None ... self.sensor_data = {}
DisconnectReset ==
    /\ dpc = "reset"
    /\ client' = None
    /\ world' = None
    /\ vehicle' = None
    /\ sensors' = <<>>
    /\ sensor_data' = <<>>
    /\ dpc' = "idle"
    /\ lastCall' = "disconnect"
    /\ connected' = FALSE
    /\ held' = HeldAfterReset
    /\ UNCHANGED <<worldActors, todo, ferr, nConnects, nDisconnects, nData,
                   inRow, fmsg, attempted, orphans, bridgeVars, toolVars>>

FacadeNext ==
    \/ Connect
    \/ ConnectFails
    \/ SpawnVehicle
    \/ \E why \in SpawnFailures : SpawnVehicleFails(why)
    \/ \E name \in SensorNames : AddRgbCamera(name)
    \/ \E name \in SensorNames : AddLidar(name)
    \/ AddSensorFails
    \/ AddSensorSpawnFails
    \/ \E a \in DOMAIN worldActors : OnCameraData(a)
    \/ \E a \in DOMAIN worldActors : OnLidarData(a)
    \/ DisconnectBegin
    \/ DisconnectSensor
    \/ DisconnectVehicle
    \/ DisconnectReset

SpecFacade == Init /\ [][FacadeNext]_vars

\* The facade together with a caller that keeps what get_sensor_data()
\* returned.
CallerNext ==
    \/ FacadeNext
    \/ GetSensorData

SpecFacadeCaller == Init /\ [][CallerNext]_vars

\* The names that have a sensor in the sensor map.
RegisteredNames == {sensors[i].name : i \in DOMAIN sensors}

\* C28: every key of the sensor-data map is the name of a sensor in the
\* sensor map; in particular the map is empty after disconnect() until a
\* sensor is added, whatever callbacks arrive late.
C28_DataOnlyForRegisteredSensors == DOMAIN sensor_data \subseteq RegisteredNames

\* ======================================================================
\* The configuration: Settings (config/settings.py)
\* ======================================================================
\* A key of a mapping is a string, written as its sequence of characters.
Keys == {<<"a">>, <<"b">>}

\* YAML values: null, numbers and mappings. A mapping is a function from
\* the keys it has to their values.
NoneValue == [kind |-> "none"]

Scalar(n) == [kind |-> "scalar", val |-> n]

Dict(items) == [kind |-> "dict", items |-> items]

EmptyDict == Dict(<<>>)

IsDict(v) == v.kind = "dict"

\* isinstance(v, dict) is false for everything else: None and numbers.
DictsOver(values) ==
    {Dict(f) : f \in UNION {[S -> values] : S \in SUBSET Keys}}

\* The values the defaults are made of and the values a user file is
\* made of, to depth MaxDepth.
DefaultScalars == {Scalar(1)}

UserScalars == {Scalar(MaxScalar), NoneValue}

RECURSIVE ValuesTo(_, _)
ValuesTo(scalars, depth) ==
    IF depth = 0 THEN scalars
    ELSE scalars \cup DictsOver(ValuesTo(scalars, depth - 1))

DefaultSettings == DictsOver(ValuesTo(DefaultScalars, MaxDepth - 1))

UserSettings == DictsOver(ValuesTo(UserScalars, MaxDepth - 1))

\* The orders in which a mapping can list its keys (u.items() follows
\* the order of the file).
KeyOrders == {<<k1, k2>> : k1, k2 \in Keys} \ {<<k, k>> : k \in Keys}

\* d.get(k, default) on a dict d.
DictGet(d, k, default) ==
    IF k \in DOMAIN d.items THEN d.items[k] ELSE default

\* d[k] = v on a dict d.
DictSet(d, k, v) ==
    Dict([x \in DOMAIN d.items \cup {k} |-> IF x = k THEN v ELSE d.items[x]])

\* _update_dict(d, u), the keys of u visited in the given order. The
\* result is the object d after the call and whether the call raised:
\* d.get and d[k] = v raise on a d that is no dict, and an exception
\* leaves what was assigned before it in place.
RECURSIVE UpdateLoop(_, _, _, _)
UpdateLoop(d, u, rest, order) ==
    IF rest = <<>> THEN [val |-> d, raised |-> FALSE]
    ELSE LET k == Head(rest) IN
         IF k \notin DOMAIN u.items THEN UpdateLoop(d, u, Tail(rest), order)
         ELSE IF ~IsDict(d) THEN [val |-> d, raised |-> TRUE]
         ELSE LET v == u.items[k] IN
              IF IsDict(v)
              THEN LET inner == UpdateLoop(DictGet(d, k, EmptyDict), v,
                                           order, order)
                   IN  IF inner.raised
                       THEN [val |-> IF k \in DOMAIN d.items
                                     THEN DictSet(d, k, inner.val) ELSE d,
                             raised |-> TRUE]
                       ELSE UpdateLoop(DictSet(d, k, inner.val), u,
                                       Tail(rest), order)
              ELSE UpdateLoop(DictSet(d, k, v), u, Tail(rest), order)

UpdateDict(d, u, order) == UpdateLoop(d, u, order, order)

\* key.split('.'): the segments between the dots, empty ones included.
RECURSIVE Split(_)
Split(key) ==
    IF \A i \in 1..Len(key) : key[i] # "."
    THEN <<key>>
    ELSE LET dot == CHOOSE i \in 1..Len(key) :
                       /\ key[i] = "."
                       /\ \A j \in 1..(i - 1) : key[j] # "."
         IN  <<SubSeq(key, 1, dot - 1)>> \o Split(SubSeq(key, dot + 1, Len(key)))

\* The loop of get(): None stands for a key the dict does not have.
RECURSIVE GetLoop(_, _, _)
GetLoop(value, keys, default) ==
    IF keys = <<>>
    THEN (IF value # NoneValue THEN value ELSE default)
    ELSE IF IsDict(value)
         THEN GetLoop(DictGet(value, Head(keys), NoneValue), Tail(keys), default)
         ELSE default

SettingsGet(key, default) == GetLoop(settings, Split(key), default)

\* The keys a caller asks for: strings of at most MaxKeyLen characters.
KeyChars == {"a", "b", "."}

KeyStrings == UNION {[1..n -> KeyChars] : n \in 0..MaxKeyLen}

Defaults == {Scalar(0), NoneValue}

NoUpdate == [d |-> NoneValue, u |-> NoneValue, out |-> NoneValue,
             raised |-> FALSE, called |-> FALSE]

NoLookup == [key |-> <<>>, default |-> NoneValue, ret |-> NoneValue,
             called |-> FALSE]

\* Settings(): self.settings = self._load_default_settings(). The literal
\* of the source stands for any mapping of the bounded depth.
NewSettings ==
    /\ settings = NoneValue
    /\ settings' \in DefaultSettings
    /\ UNCHANGED <<nLoads, upd, getr, notSettings>>

\* load_config(): the file's mapping is merged into self.settings.
LoadConfig ==
    /\ settings # NoneValue
    /\ nLoads < MaxLoads
    /\ nLoads' = nLoads + 1
    /\ \E u \in UserSettings, order \in KeyOrders :
          LET res == UpdateDict(settings, u, order) IN
          /\ settings' = res.val
          /\ upd' = [d |-> settings, u |-> u, out |-> res.val,
                     raised |-> res.raised, called |-> TRUE]
    /\ getr' = NoLookup
    /\ UNCHANGED notSettings

\* get(key, default)
Get ==
    /\ settings # NoneValue
    /\ \E key \in KeyStrings, default \in Defaults :
          getr' = [key |-> key, default |-> default,
                   ret |-> SettingsGet(key, default), called |-> TRUE]
    /\ upd' = NoUpdate
    /\ UNCHANGED <<settings, nLoads, notSettings>>

SettingsNext ==
    \/ NewSettings
    \/ LoadConfig
    \/ Get

SpecSettings == Init /\ [][SettingsNext]_vars

\* ======================================================================
\* Claims about the facade
\* ======================================================================

Destroyed(a) == ~worldActors[a].alive

RegisteredSensorsDestroyed ==
    \A i \in 1..Len(sensors) : Destroyed(sensors[i].actor)

\* C10: disconnect() destroys every registered sensor before it destroys
\* the vehicle, and clears the facade state only after both.
C10_SensorsBeforeVehicle ==
    /\ []((vehicle # None /\ Destroyed(vehicle)) => RegisteredSensorsDestroyed)
    /\ [][(dpc = "reset" /\ dpc' = "idle")
          => /\ RegisteredSensorsDestroyed
             /\ vehicle # None => Destroyed(vehicle)]_vars

C10_Witness ==
    /\ dpc = "reset"
    /\ vehicle # None
    /\ Destroyed(vehicle)
    /\ Len(sensors) = 2
    /\ RegisteredSensorsDestroyed

\* The five fields of the facade hold nothing.
FacadeEmpty ==
    /\ client = None
    /\ world = None
    /\ vehicle = None
    /\ sensors = <<>>
    /\ sensor_data = <<>>

DisconnectReturns == dpc = "reset" /\ dpc' = "idle"

\* C11: when a disconnect() returns, client, world and vehicle are unset
\* and the sensor map and the sensor-data map have no entries, whatever
\* the facade held when the call began.
C11_DisconnectLeavesFacadeEmpty ==
    [][DisconnectReturns => FacadeEmpty']_vars

C11_Witness ==
    /\ dpc = "idle"
    /\ lastCall = "disconnect"
    /\ FacadeEmpty
    /\ Len(worldActors) >= 2
    /\ nData > 0

\* A disconnect() that began right after another one is running.
SecondDisconnectRuns == inRow /\ dpc \in {"sensors", "reset"}

C13_ReturnedMappingIsSnapshot == held.has => HeldNow = held.atCall

\* A step of _on_camera_data or _on_lidar_data.
CallbackStep == nData' = nData + 1

\* The callback of actor a stored its frame, the newest one, decoded, under
\* the name a was added with, and touched no other entry.
StoredBy(a) ==
    LET name == worldActors[a].name IN
    /\ worldActors[a].listening
    /\ DOMAIN sensor_data' = DOMAIN sensor_data \cup {name}
    /\ sensor_data'[name] = Decode(worldActors[a].type, nData')
    /\ \A other \in DOMAIN sensor_data \ {name} :
          sensor_data'[other] = sensor_data[other]

\* C14: every callback replaces the entry of its sensor's name by the
\* decoded frame it was called with, so the entry of a name is the frame
\* of the most recent callback for that name, and leaves the entries of
\* all other names as they were.
C14_LatestFramePerName ==
    [][CallbackStep => \E a \in DOMAIN worldActors : StoredBy(a)]_vars

C14_Witness ==
    /\ nData = MaxData
    /\ nDisconnects = 0
    /\ DOMAIN sensor_data = SensorNames
    /\ \E name \in SensorNames : sensor_data[name].frame = 1
    /\ \E name \in SensorNames : sensor_data[name].frame = MaxData

\* The call that ends in this step raised an exception of that kind.
Raises(kind) == ferr' = kind /\ ferr # kind

\* This step spawned a sensor actor.
SensorSpawned ==
    /\ Len(worldActors') > Len(worldActors)
    /\ worldActors'[Len(worldActors')].type # "vehicle"

\* C15: while the facade has no vehicle, add_rgb_camera() and add_lidar()
\* can only raise; the call that raises "No vehicle spawned" spawns no
\* actor and leaves the sensor map and the sensor-data map as they were,
\* and no sensor actor is ever spawned without a vehicle to attach it to.
C15_AddSensorNeedsVehicle ==
    /\ []((dpc = "idle" /\ vehicle = None)
          => /\ ENABLED AddSensorFails
             /\ \A name \in SensorNames :
                   /\ ~ENABLED AddRgbCamera(name)
                   /\ ~ENABLED AddLidar(name))
    /\ [][Raises("no_vehicle")
          => /\ vehicle = None
             /\ worldActors' = worldActors
             /\ sensors' = sensors
             /\ sensor_data' = sensor_data]_vars
    /\ [][SensorSpawned => vehicle # None]_vars

C15_Witness ==
    /\ ferr = "no_vehicle"
    /\ nDisconnects > 0
    /\ vehicle = None
    /\ \E a \in DOMAIN worldActors : worldActors[a].type = "vehicle"

\* This step spawned a vehicle actor.
VehicleSpawned ==
    /\ Len(worldActors') > Len(worldActors)
    /\ worldActors'[Len(worldActors')].type = "vehicle"

\* C16: as long as no connect() has succeeded since construction or since
\* the last disconnect(), a failed connect() included, spawn_vehicle() can
\* only raise "World is not connected", and that call spawns no actor and
\* sets no vehicle; every vehicle is spawned after a successful connect().
C16_SpawnVehicleNeedsConnect ==
    /\ []((dpc = "idle" /\ ~connected)
          => /\ ENABLED SpawnVehicleFails("not_connected")
             /\ ~ENABLED SpawnVehicle
             /\ \A why \in SpawnFailures \ {"not_connected"} :
                   ~ENABLED SpawnVehicleFails(why))
    /\ [][Raises("not_connected")
          => /\ ~connected
             /\ worldActors' = worldActors
             /\ vehicle' = vehicle]_vars
    /\ [][VehicleSpawned => connected]_vars

C16_Witness ==
    /\ ferr = "not_connected"
    /\ ~connected
    /\ client # None
    /\ nDisconnects = 0
    /\ worldActors = <<>>

\* C17: when try_spawn_actor finds the position occupied, spawn_vehicle()
\* raises the spawn error, whose message has the word "collision", after
\* the attempt, and self.vehicle is what it was before the call.
C17_CollisionRaisesSpawnError ==
    /\ [](ferr = "collision"
          => /\ Contains(fmsg, "collision")
             /\ SubSeq(fmsg, 1, 4) = <<"Failed", "to", "spawn", "vehicle:">>)
    /\ [][Raises("collision")
          => /\ attempted'
             /\ vehicle' = vehicle
             /\ worldActors' = worldActors]_vars

C17_Witness ==
    /\ ferr = "collision"
    /\ vehicle # None
    /\ worldActors[vehicle].alive
    /\ Contains(fmsg, "collision")

\* C18: when the model has no blueprint, spawn_vehicle() raises the
\* not-found error without having called try_spawn_actor, and the world's
\* actors, self.vehicle, the sensor map and the sensor-data map are what
\* they were before the call.
C18_UnknownModelFailsBeforeSpawn ==
    /\ [](ferr = "not_found"
          => /\ Contains(fmsg, "not") /\ Contains(fmsg, "found")
             /\ ~attempted)
    /\ [][Raises("not_found")
          => /\ worldActors' = worldActors
             /\ vehicle' = vehicle
             /\ sensors' = sensors
             /\ sensor_data' = sensor_data]_vars

C18_Witness ==
    /\ ferr = "not_found"
    /\ ~attempted
    /\ vehicle # None
    /\ sensors # <<>>
    /\ sensor_data # <<>>

\* The vehicles spawned through the facade that the simulator still has.
AliveVehicles ==
    {a \in DOMAIN worldActors :
        worldActors[a].type = "vehicle" /\ worldActors[a].alive}

\* C19: at most one vehicle spawned through the facade is alive, and none
\* is alive when a disconnect() has returned.
C19_AtMostOneVehicleAlive ==
    /\ Cardinality(AliveVehicles) <= 1
    /\ (dpc = "idle" /\ lastCall = "disconnect") => AliveVehicles = {}

\* Actor o, orphaned under its name, can deliver a frame, and the frame
\* lands in the entry of that name.
CanStillDeliver(o) ==
    LET type == worldActors[o].type IN
    ENABLED (/\ OnSensorData(o, type)
             /\ sensor_data'[worldActors[o].name] = Decode(type, nData + 1))

\* This step added a sensor under a name that was registered.
ReAdded(name) == SensorSpawned /\ HasSensor(name)
                 /\ worldActors'[Len(worldActors')].name = name

\* C20: adding a sensor under a registered name stores the new actor under
\* the name and leaves the previous actor as it was; the facade never
\* calls destroy on the previous actor afterwards, not in disconnect()
\* either, so it stays alive and listening and its frames still go into
\* the entry of that name.
C20_ReAddOrphansPreviousActor ==
    /\ [](\A o \in orphans :
             /\ \A i \in 1..Len(sensors) : sensors[i].actor # o
             /\ worldActors[o].destroyCalls = 0
             /\ worldActors[o].alive
             /\ worldActors[o].listening
             /\ nData < MaxData => CanStillDeliver(o))
    /\ [][\A name \in SensorNames :
             ReAdded(name)
             => /\ SensorOf(name)' = Len(worldActors')
                /\ SensorOf(name) \in orphans'
                /\ worldActors'[SensorOf(name)] = worldActors[SensorOf(name)]
                /\ Len(sensors') = Len(sensors)]_vars

C20_Witness ==
    /\ dpc = "idle"
    /\ lastCall = "disconnect"
    /\ \E o \in orphans :
          /\ worldActors[o].alive
          /\ worldActors[o].name \in DOMAIN sensor_data
          /\ \E a \in DOMAIN worldActors :
                /\ a # o
                /\ worldActors[a].name = worldActors[o].name
                /\ worldActors[a].destroyCalls = 1

\* ======================================================================
\* The decode step of the sensor bridge: _sensor_callback of RGBCamera,
\* LidarSensor, SemanticCamera and DepthCamera (carla_interface/sensors.py)
\* ======================================================================
\* An array is its shape, its element type and its elements in row-major
\* order; an element is named by its position in the raw buffer, from 1.
Raise == [raised |-> TRUE]

Array(shape, dtype, flat) ==
    [raised |-> FALSE, shape |-> shape, dtype |-> dtype, flat |-> flat]

RECURSIVE Prod(_)
Prod(shape) == IF shape = <<>> THEN 1 ELSE Head(shape) * Prod(Tail(shape))

\* Bytes per element of the two element types.
ItemSize(dtype) == IF dtype = "uint8" THEN 1 ELSE 4

\* np.frombuffer(raw_data, dtype): raises unless the buffer is a whole
\* number of elements.
FromBuffer(nbytes, dtype) ==
    IF nbytes % ItemSize(dtype) # 0 THEN Raise
    ELSE LET count == nbytes \div ItemSize(dtype) IN
         Array(<<count>>, dtype, [i \in 1..count |-> i])

\* np.reshape(array, shape): raises unless the sizes agree.
Reshape(array, shape) ==
    IF array.raised \/ Prod(shape) # Len(array.flat) THEN Raise
    ELSE Array(shape, array.dtype, array.flat)

\* The elements, in order from the i-th, whose index on the last axis
\* (of so many channels) is at least lo and less than hi.
RECURSIVE Select(_, _, _, _, _)
Select(flat, i, channels, lo, hi) ==
    IF i > Len(flat) THEN <<>>
    ELSE (IF lo <= (i - 1) % channels /\ (i - 1) % channels < hi
          THEN <<flat[i]>> ELSE <<>>)
         \o Select(flat, i + 1, channels, lo, hi)

\* array[:, :, :n] of an array of three axes.
FirstChannels(array, n) ==
    IF array.raised THEN Raise
    ELSE LET channels == array.shape[3]
         IN  Array(<<array.shape[1], array.shape[2],
                     IF n < channels THEN n ELSE channels>>,
                   array.dtype, Select(array.flat, 1, channels, 0, n))

\* array[:, :, c] of an array of three axes.
OneChannel(array, c) ==
    IF array.raised THEN Raise
    ELSE LET channels == array.shape[3]
         IN  Array(<<array.shape[1], array.shape[2]>>, array.dtype,
                   Select(array.flat, 1, channels, c, c + 1))

\* A decode that keeps the fourth channel.
RGBCameraDecodeKeepsAlpha(data) ==
    Reshape(FromBuffer(data.nbytes, "uint8"), <<data.height, data.width, 4>>)

RGBCameraDecode(data) ==
    FirstChannels(
        Reshape(FromBuffer(data.nbytes, "uint8"),
                <<data.height, data.width, 4>>), 3)

\* int(array.shape[0] / 4) rounds the quotient down.
LidarSensorDecode(data) ==
    LET array == FromBuffer(data.nbytes, "f4") IN
    IF array.raised THEN Raise
    ELSE Reshape(array, <<array.shape[1] \div 4, 4>>)

SemanticCameraDecode(data) ==
    OneChannel(
        Reshape(FromBuffer(data.nbytes, "uint8"),
                <<data.height, data.width, 4>>), 0)

DepthCameraDecode(data) ==
    OneChannel(
        Reshape(FromBuffer(data.nbytes, "uint8"),
                <<data.height, data.width, 4>>), 0)

SensorKinds == {"rgb", "lidar", "semantic", "depth"}

DecodeOf(kind, data) ==
    CASE kind = "rgb"      -> RGBCameraDecode(data)
      [] kind = "lidar"    -> LidarSensorDecode(data)
      [] kind = "semantic" -> SemanticCameraDecode(data)
      [] kind = "depth"    -> DepthCameraDecode(data)

\* The raw frames the simulator hands to a callback: a buffer of so many
\* bytes with the image size it announces (a lidar measurement has none).
RawFrames(kind) ==
    IF kind = "lidar"
    THEN {[nbytes |-> n, height |-> 0, width |-> 0] : n \in 0..MaxBytes}
    ELSE {[nbytes |-> n, height |-> h, width |-> w] :
             n \in 0..MaxBytes, h \in 1..MaxHeight, w \in 1..MaxWidth}

\* _sensor_callback(data): the frame is decoded and self.queue.put(array)
\* runs once, unless the decoding raised.
DecodeFrame ==
    \E kind \in SensorKinds :
       \E data \in RawFrames(kind) :
          LET array == DecodeOf(kind, data) IN
          dec' = [called |-> TRUE, kind |-> kind, data |-> data,
                  array |-> array,
                  put |-> IF array.raised THEN <<>> ELSE <<array>>]
    /\ UNCHANGED notDecode

SpecDecode == Init /\ [][DecodeFrame]_vars

\* ======================================================================
\* Claims about the decode step
\* ======================================================================

\* A raw frame of the documented layout and size: four bytes for each
\* pixel of a camera image, four 32-bit floats for each lidar point.
Documented(kind, data) ==
    IF kind = "lidar" THEN data.nbytes % 16 = 0
    ELSE data.nbytes = data.height * data.width * 4

DocumentedShape(kind, data) ==
    CASE kind = "rgb"      -> <<data.height, data.width, 3>>
      [] kind = "lidar"    -> <<(data.nbytes \div 4) \div 4, 4>>
      [] kind = "semantic" -> <<data.height, data.width>>
      [] kind = "depth"    -> <<data.height, data.width>>

\* The channel, from 0, of the raw element an array element was taken from.
ChannelOf(element) == (element - 1) % 4

\* C22: a raw frame of the documented layout and size is decoded without
\* an exception into an array of the documented shape (H x W x 3 without
\* the fourth channel for RGB, N x 4 for lidar, H x W of channel 0 for
\* semantic and depth), and that one array is put on the queue, once.
C22_DecodedShape ==
    (dec.called /\ Documented(dec.kind, dec.data))
    => /\ ~dec.array.raised
       /\ dec.array.shape = DocumentedShape(dec.kind, dec.data)
       /\ Len(dec.array.flat) = Prod(dec.array.shape)
       /\ dec.kind = "rgb"
          => \A i \in 1..Len(dec.array.flat) : ChannelOf(dec.array.flat[i]) < 3
       /\ dec.kind \in {"semantic", "depth"}
          => \A i \in 1..Len(dec.array.flat) : ChannelOf(dec.array.flat[i]) = 0
       /\ dec.kind = "lidar" => dec.array.flat = [i \in 1..(dec.data.nbytes \div 4) |-> i]
       /\ dec.put = <<dec.array>>

C22_Witness ==
    /\ dec.called
    /\ dec.kind = "rgb"
    /\ dec.data = [nbytes |-> 16, height |-> 2, width |-> 2]
    /\ dec.array.shape = <<2, 2, 3>>
    /\ dec.array.flat = <<1, 2, 3, 5, 6, 7, 9, 10, 11, 13, 14, 15>>
    /\ Len(dec.put) = 1

\* ======================================================================
\* Claims about the configuration
\* ======================================================================

\* The merge of an override mapping into a defaults mapping: a key the
\* override lacks keeps its default, a key whose override is a mapping
\* gets the merge of that mapping into the default under the key (into
\* the empty mapping when the default is no mapping), any other key gets
\* the override.
RECURSIVE Merged(_, _)
Merged(d, u) ==
    Dict([k \in DOMAIN d.items \cup DOMAIN u.items |->
            IF k \notin DOMAIN u.items THEN d.items[k]
            ELSE IF IsDict(u.items[k])
                 THEN Merged(IF k \in DOMAIN d.items /\ IsDict(d.items[k])
                             THEN d.items[k] ELSE EmptyDict,
                             u.items[k])
                 ELSE u.items[k]])

\* C21: load_config() returns normally with self.settings the merge of
\* the file's mapping into the settings it had, for every pair of them.
C21_MergeRecursive ==
    upd.called => /\ ~upd.raised
                  /\ upd.out = Merged(upd.d, upd.u)

\* What is stored at a path of keys below a value: every segment has to
\* be a key of the mapping reached so far.
RECURSIVE Stored(_, _)
Stored(value, path) ==
    IF path = <<>> THEN [found |-> TRUE, val |-> value]
    ELSE IF IsDict(value) /\ Head(path) \in DOMAIN value.items
         THEN Stored(value.items[Head(path)], Tail(path))
         ELSE [found |-> FALSE, val |-> NoneValue]

\* C24: get(key, default) returns the value stored at the path of the
\* key's segments when there is one, and default when there is none.
C24_GetReturnsStoredOrDefault ==
    getr.called
    => LET at == Stored(settings, Split(getr.key)) IN
       IF at.found THEN getr.ret = at.val ELSE getr.ret = getr.default

\* ======================================================================
\* The evaluation driver: run_evaluation.py, run as a script
\* ======================================================================
RequiredVars == {"CARLA_ROOT", "SCENARIO_RUNNER_ROOT", "LEADERBOARD_ROOT"}

\* os.getenv of a required variable: None when absent, '' when empty.
RootValues == {"absent", "empty", "path"}

\* The optional PORT that leaderboard_config turns into an int.
PortValues == {"absent", "number", "text"}

Environments ==
    {e \in [RequiredVars \cup {"PORT"} -> RootValues \cup PortValues] :
        /\ \A v \in RequiredVars : e[v] \in RootValues
        /\ e["PORT"] \in PortValues}

\* bool(value) of what os.getenv returned.
Truthy(value) == value \notin {"absent", "empty"}

\* The process starts with some environment; nothing has run yet.
ProcessStart ==
    /\ epc = "none"
    /\ env' \in Environments
    /\ epc' = "check"
    /\ UNCHANGED <<derr, evaluator, simulatorUsed, notDriver>>

\* A check that only looks for absent variables.
CheckEnvironmentAbsentOnly ==
    /\ epc = "check"
    /\ \A v \in RequiredVars : env[v] # "absent"
    /\ epc' = "import"
    /\ UNCHANGED <<env, derr, evaluator, simulatorUsed, notDriver>>

\* if not all([...]): raise RuntimeError("Missing required environment
\* variables. ..."): the module's execution ends here.
CheckEnvironmentFails ==
    /\ epc = "check"
    /\ \E v \in RequiredVars : ~Truthy(env[v])
    /\ epc' = "failed"
    /\ derr' = "missing_env"
    /\ UNCHANGED <<env, evaluator, simulatorUsed, notDriver>>

\* The three roots are there: the paths are added to sys.path.
CheckEnvironment ==
    /\ epc = "check"
    /\ \A v \in RequiredVars : Truthy(env[v])
    /\ epc' = "import"
    /\ UNCHANGED <<env, derr, evaluator, simulatorUsed, notDriver>>

\* The imports of the harness and of leaderboard_config succeed.
ImportModules ==
    /\ epc = "import"
    /\ env["PORT"] # "text"
    /\ epc' = "main"
    /\ UNCHANGED <<env, derr, evaluator, simulatorUsed, notDriver>>

\* The harness cannot be imported (sys.exit(1)), or leaderboard_config
\* raises on int(os.getenv('PORT', '2000')).
ImportModulesFails ==
    /\ epc = "import"
    /\ epc' = "failed"
    /\ derr' = IF env["PORT"] = "text" THEN "bad_port" ELSE "import_error"
    /\ UNCHANGED <<env, evaluator, simulatorUsed, notDriver>>

\* main(): the arguments are parsed, the output directory is made and
\* LeaderboardEvaluator(eval_args, statistics_manager) is created.
CreateEvaluator ==
    /\ epc = "main"
    /\ evaluator' = TRUE
    /\ epc' = "run"
    /\ UNCHANGED <<env, derr, simulatorUsed, notDriver>>

\* evaluator.run(eval_args): the harness drives the simulator.
RunEvaluator ==
    /\ epc = "run"
    /\ simulatorUsed' = TRUE
    /\ epc' = "report"
    /\ UNCHANGED <<env, derr, evaluator, notDriver>>

\* The results are printed, with or without the statistics.
PrintResults ==
    /\ epc = "report"
    /\ epc' = "done"
    /\ UNCHANGED <<env, derr, evaluator, simulatorUsed, notDriver>>

DriverNext ==
    \/ ProcessStart
    \/ CheckEnvironmentFails
    \/ CheckEnvironment
    \/ ImportModules
    \/ ImportModulesFails
    \/ CreateEvaluator
    \/ RunEvaluator
    \/ PrintResults

SpecDriver == Init /\ [][DriverNext]_vars

\* ======================================================================
\* Claims about the evaluation driver
\* ======================================================================

MissingRequired == \E v \in RequiredVars : env[v] \in {"absent", "empty"}

\* C23: with a required variable absent or empty the driver fails in its
\* first step after the start, with the missing-variables error, and no
\* evaluator is ever created and the simulator is never used.
C23_MissingEnvFailsAtStart ==
    (epc # "none" /\ MissingRequired)
    => /\ epc \in {"check", "failed"}
       /\ epc = "failed" => derr = "missing_env"
       /\ ~evaluator
       /\ ~simulatorUsed

C23_Witness ==
    /\ epc = "failed"
    /\ derr = "missing_env"
    /\ env["CARLA_ROOT"] = "path"
    /\ env["SCENARIO_RUNNER_ROOT"] = "path"
    /\ env["LEADERBOARD_ROOT"] = "empty"

\* ======================================================================
\* The spawn point of spawn_vehicle() (carla_interface/simulator.py)
\* ======================================================================
\* Lengths and angles are counted in tenths of a unit. Objects live in a
\* heap, a sequence of values; a reference is a position in it. The
\* caller's argument is the object at CallerRef.
CallerRef == 1

Fields == {"x", "y", "z", "pitch", "yaw", "roll"}

Coordinates == (0 - MaxCoord)..MaxCoord

\* What a caller passes: a carla.Transform, a dict with some of the
\* keys, or something else.
TransformObjects == [Fields -> Coordinates]

TransformDicts == UNION {[S -> Coordinates] : S \in SUBSET Fields}

SpawnArguments ==
    {[form |-> "transform", value |-> t] : t \in TransformObjects}
    \cup {[form |-> "dict", value |-> d] : d \in TransformDicts}
    \cup {[form |-> "other", value |-> <<>>]}

\* carla.Transform(carla.Location(x=float(transform.get('x', 0)), ...),
\*                 carla.Rotation(...))
TransformFromDict(d) ==
    [f \in Fields |-> IF f \in DOMAIN d THEN d[f] ELSE 0]

\* carla.Transform(carla.Location(), rotation): a new object with the
\* location at the origin and a copy of the rotation.
TransformAtOrigin(rotation) ==
    [f \in Fields |-> IF f \in {"x", "y", "z"} THEN 0 ELSE rotation[f]]

\* The three assignments to spawn_point.location, on the object that
\* spawn_point refers to.
LiftedHeap(heap, transform, spawn_point) ==
    LET h1 == [heap EXCEPT ![spawn_point].x = heap[transform].x]
        h2 == [h1 EXCEPT ![spawn_point].y = h1[transform].y]
    IN  [h2 EXCEPT ![spawn_point].z = h2[transform].z + Lift]

\* Lines 64-89 with spawn_point = transform in place of a new object.
SpawnPointAliased(arg) ==
    IF arg.form = "other"
    THEN [raised |-> TRUE, heap |-> <<arg.value>>, point |-> None]
    ELSE LET heap0 == IF arg.form = "dict"
                      THEN <<arg.value, TransformFromDict(arg.value)>>
                      ELSE <<arg.value>>
             transform == Len(heap0)
         IN  [raised |-> FALSE,
              heap |-> LiftedHeap(heap0, transform, transform),
              point |-> transform]

\* Lines 64-89: the heap when try_spawn_actor is called and the
\* reference it is called with.
SpawnPoint(arg) ==
    IF arg.form = "other"
    THEN [raised |-> TRUE, heap |-> <<arg.value>>, point |-> None]
    ELSE LET heap0 == IF arg.form = "dict"
                      THEN <<arg.value, TransformFromDict(arg.value)>>
                      ELSE <<arg.value>>
             transform == Len(heap0)
             heap1 == Append(heap0, TransformAtOrigin(heap0[transform]))
             spawn_point == Len(heap1)
         IN  [raised |-> FALSE,
              heap |-> LiftedHeap(heap1, transform, spawn_point),
              point |-> spawn_point]

\* spawn_vehicle(model, transform) on a connected facade, up to the call
\* of try_spawn_actor; one call is followed.
SpawnVehicleAt ==
    /\ ~sp.called
    /\ \E arg \in SpawnArguments :
          LET res == SpawnPoint(arg) IN
          sp' = [called |-> TRUE, arg |-> arg, raised |-> res.raised,
                 caller |-> res.heap[CallerRef],
                 point |-> IF res.raised THEN <<>> ELSE res.heap[res.point]]
    /\ UNCHANGED notPoint

SpecSpawnPoint == Init /\ [][SpawnVehicleAt]_vars

\* ======================================================================
\* Claims about the spawn point
\* ======================================================================

\* What the caller asked for in a field: a key a dict lacks counts as 0.
Requested(arg, f) ==
    IF arg.form = "dict" /\ f \notin DOMAIN arg.value THEN 0 ELSE arg.value[f]

\* C26: for a dict and for a carla.Transform, try_spawn_actor is called
\* with the requested x, y and rotation and with the requested z plus
\* 0.2, and the object the caller passed is what it was.
C26_SpawnPointLifted ==
    (sp.called /\ sp.arg.form \in {"dict", "transform"})
    => /\ ~sp.raised
       /\ \A f \in Fields \ {"z"} : sp.point[f] = Requested(sp.arg, f)
       /\ sp.point.z = Requested(sp.arg, "z") + Lift
       /\ sp.caller = sp.arg.value

C26_Witness ==
    /\ sp.called
    /\ sp.arg.form = "transform"
    /\ sp.arg.value.z = 1
    /\ sp.arg.value.yaw = 1
    /\ sp.point.z = 3
    /\ sp.point.yaw = 1
    /\ sp.caller.z = 1

\* ======================================================================
\* The renderer: Renderer (visualization/renderer.py)
\* ======================================================================

\* A cv2.VideoWriter: the frames write() gave it, the release() calls
\* made on it, and whether it still holds its stream open.
NewWriter == [open |-> TRUE, frames |-> 0, releases |-> 0]

\* The frames written to the video stream, over every writer made.
RECURSIVE FramesWritten(_)
FramesWritten(ws) ==
    IF ws = <<>> THEN 0 ELSE Head(ws).frames + FramesWritten(Tail(ws))

\* What a call leaves for the next one to be compared with.
Before(op) ==
    [op |-> op, count |-> frame_count, written |-> FramesWritten(writers),
     had |-> video_writer, stills |-> stills]

\* Renderer(output_dir, save_video, fps), lines 24-30.
NewRenderer ==
    /\ rpc = "none"
    /\ \E sv \in BOOLEAN : save_video' = sv
    /\ video_writer' = None
    /\ frame_count' = 0
    /\ rpc' = "made"
    /\ rlast' = Before("new")
    /\ UNCHANGED <<writers, stills, nSetups, nRenders, nStills, nCleanups>>
    /\ UNCHANGED notRenderer

\* Line 48 rebinds self.video_writer: a writer it held has no reference
\* left, and the runtime finalises it, which closes its stream without a
\* release() call of the renderer.
Finalized(ws, w) ==
    IF w = None THEN ws ELSE [ws EXCEPT ![w].open = FALSE]

\* setup_video_writer(width, height, filename), lines 43-53.
SetupVideoWriter ==
    /\ rpc = "made"
    /\ nSetups < MaxSetups
    /\ nSetups' = nSetups + 1
    /\ rlast' = Before("setup_video_writer")
    /\ IF ~save_video
       THEN UNCHANGED <<video_writer, writers>>
       ELSE /\ writers' = Append(Finalized(writers, video_writer), NewWriter)
            /\ video_writer' = Len(writers) + 1
    /\ UNCHANGED <<save_video, frame_count, rpc, stills, nRenders, nStills,
                   nCleanups>>
    /\ UNCHANGED notRenderer

\* render_frame counting every frame of a saving renderer, written or
\* not.
RenderFrameCountsUnwritten ==
    /\ rpc = "made"
    /\ nRenders < MaxRenders
    /\ nRenders' = nRenders + 1
    /\ rlast' = Before("render_frame")
    /\ IF save_video /\ video_writer # None
       THEN writers' = [writers EXCEPT ![video_writer].frames = @ + 1]
       ELSE UNCHANGED writers
    /\ frame_count' = IF save_video THEN frame_count + 1 ELSE frame_count
    /\ UNCHANGED <<save_video, video_writer, rpc, stills, nSetups, nStills,
                   nCleanups>>
    /\ UNCHANGED notRenderer

\* render_frame(camera_image, model_output, debug_info), lines 70-86: the
\* overlays change the returned frame only.
RenderFrame ==
    /\ rpc = "made"
    /\ nRenders < MaxRenders
    /\ nRenders' = nRenders + 1
    /\ rlast' = Before("render_frame")
    /\ IF save_video /\ video_writer # None
       THEN /\ writers' = [writers EXCEPT ![video_writer].frames = @ + 1]
            /\ frame_count' = frame_count + 1
       ELSE UNCHANGED <<writers, frame_count>>
    /\ UNCHANGED <<save_video, video_writer, rpc, stills, nSetups, nStills,
                   nCleanups>>
    /\ UNCHANGED notRenderer

\* The file names save_frame is called with: None or a name.
StillNames == {None, 1}

\* Lines 168-169: the name of the still, the counter when none is given.
StillName(filename) ==
    IF filename = None
    THEN [kind |-> "auto", n |-> frame_count]
    ELSE [kind |-> "given", n |-> filename]

\* save_frame(frame, filename), lines 168-172: imwrite makes or replaces
\* the file.
SaveFrame ==
    /\ rpc = "made"
    /\ nStills < MaxStills
    /\ nStills' = nStills + 1
    /\ rlast' = Before("save_frame")
    /\ \E filename \in StillNames :
          stills' = stills \cup {StillName(filename)}
    /\ UNCHANGED <<save_video, video_writer, frame_count, writers, rpc,
                   nSetups, nRenders, nCleanups>>
    /\ UNCHANGED notRenderer

\* cleanup(), lines 176-178.
Cleanup ==
    /\ rpc = "made"
    /\ nCleanups < MaxCleanups
    /\ nCleanups' = nCleanups + 1
    /\ rlast' = Before("cleanup")
    /\ IF video_writer # None
       THEN /\ writers' = [writers EXCEPT ![video_writer].open = FALSE,
                                          ![video_writer].releases = @ + 1]
            /\ video_writer' = None
       ELSE UNCHANGED <<video_writer, writers>>
    /\ UNCHANGED <<save_video, frame_count, rpc, stills, nSetups, nRenders,
                   nStills>>
    /\ UNCHANGED notRenderer

RendererNext ==
    \/ NewRenderer
    \/ SetupVideoWriter
    \/ RenderFrame
    \/ SaveFrame
    \/ Cleanup

SpecRenderer == Init /\ [][RendererNext]_vars

\* ======================================================================
\* Claims about the renderer
\* ======================================================================

\* The last call was a render_frame that wrote a frame to the stream.
WroteFrame ==
    /\ rlast.op = "render_frame"
    /\ FramesWritten(writers) = rlast.written + 1

\* C29: the frame counter is the number of frames written to the video
\* stream; only a render_frame call that writes a frame, with video
\* saving enabled and a writer held, increments it; a renderer with
\* video saving disabled never has a writer; cleanup releases the writer
\* it holds once and leaves none open.
C29_FrameCounterCountsWrittenFrames ==
    rpc = "made" =>
       /\ frame_count = FramesWritten(writers)
       /\ frame_count = rlast.count + (IF WroteFrame THEN 1 ELSE 0)
       /\ WroteFrame => (save_video /\ rlast.had # None)
       /\ ~save_video => (writers = <<>> /\ video_writer = None)
       /\ \A w \in DOMAIN writers : writers[w].releases <= 1
       /\ rlast.op = "cleanup" =>
             /\ video_writer = None
             /\ \A w \in DOMAIN writers : ~writers[w].open
             /\ rlast.had # None => writers[rlast.had].releases = 1

C29_Witness ==
    /\ rlast.op = "cleanup"
    /\ rlast.had = 2
    /\ frame_count = 2
    /\ writers[1].frames = 1
    /\ writers[2].frames = 1
    /\ writers[2].releases = 1
    /\ nCleanups = 2
    /\ nRenders = 3

====
